---- MODULE Spec2Model ----
(***************************************************************************)
(* AIEyes frontend (src/aieyes-frontend/src/App.jsx).                      *)
(*                                                                         *)
(* Two specifications over one set of variables:                           *)
(*   SpecEnc  the WAV encoding helpers (toWavBlob after the platform       *)
(*            decode, interleave, encodeWAV, writeString) applied to every *)
(*            decoded buffer of a bounded family;                          *)
(*   Spec     the App component: press / release of the button, the        *)
(*            recorder, and the onstop session workflow.                   *)
(*                                                                         *)
(* A sample (a JavaScript number) is an exact rational <<num, den>> with   *)
(* den > 0.  A DataView is a record [bytes, err]: bytes is the underlying  *)
(* ArrayBuffer (byte at offset o is bytes[o + 1]); err records a           *)
(* RangeError thrown by a write outside the buffer.                        *)
(***************************************************************************)
EXTENDS Integers, Sequences, FiniteSets, TLC

VARIABLES
    \* ---- encoder (toWavBlob) ----
    audioBuffer,      \* result of decodeAudioData: numberOfChannels, sampleRate, channel data
    samples,          \* the sample sequence toWavBlob passes to encodeWAV
    wavData,          \* the DataView returned by encodeWAV
    encPc,            \* "decoded" -> "encoded" | "threw" ("idle" under Spec)
    \* ---- App component ----
    isRecording,      \* useState(false)
    loading,          \* useState(false)
    audioChunksRef,   \* audioChunksRef.current
    mediaRecorderRef, \* mediaRecorderRef.current (0 = null)
    pendingStarts,    \* startRecording calls suspended in getUserMedia
    startsRejected,   \* startRecording calls whose getUserMedia was refused
    recorders,        \* the MediaRecorder objects created so far, in creation order
    handlers,         \* per recorder: the run of the onstop handler set on it
    promises,         \* Promise objects created by stopRecording so far
    held,             \* the last button event delivered was a press
    sessions          \* presses that have been followed by a release

encVars == <<audioBuffer, samples, wavData, encPc>>
uiVars == <<promises, held, sessions>>
appVars == <<isRecording, loading, audioChunksRef, mediaRecorderRef, pendingStarts,
             startsRejected, recorders, handlers, promises, held, sessions>>
vars == <<audioBuffer, samples, wavData, encPc,
          isRecording, loading, audioChunksRef, mediaRecorderRef, pendingStarts,
          startsRejected, recorders, handlers, promises, held, sessions>>

----------------------------------------------------------------------------
(* Bounds of the model *)

MaxSamples == 4       \* at most this many samples are handed to encodeWAV
MaxChannels == 3      \* numberOfChannels ranges over 1..MaxChannels
MaxPresses == 2       \* at most this many presses of the button (startRecording calls)

----------------------------------------------------------------------------
(* Numbers *)

\* Exact rationals <<num, den>>, den > 0, all representable as Float32.
SampleValues ==
    { <<-2, 1>>, <<-1, 1>>, <<-1, 2>>, <<0, 1>>, <<1, 4>>, <<1, 1>>, <<3, 2>> }

SampleRates == { 8000, 48000 }

Pow2(n) == 2 ^ n

\* Integer part of num/den, rounding toward zero (the first step of ToInt16).
Trunc(num, den) ==
    IF num >= 0 THEN num \div den ELSE -((-num) \div den)

\* Mutant of MathMin1: the upper clamp is missing.
MathMin1_NoClamp(s) == s

\* Math.min(1, s) on a rational.
MathMin1(s) == IF s[1] > s[2] THEN <<1, 1>> ELSE s

\* Mutant of MathMaxNeg1: the lower clamp is missing.
MathMaxNeg1_NoClamp(s) == s

\* Math.max(-1, s) on a rational.
MathMaxNeg1(s) == IF s[1] < -s[2] THEN <<-1, 1>> ELSE s

----------------------------------------------------------------------------
(* DataView *)

NewDataView(byteLength) ==
    [bytes |-> [i \in 1..byteLength |-> 0], err |-> FALSE]

\* One byte store; a store outside the buffer throws RangeError, and a
\* DataView whose owner has already thrown is left alone.
SetUint8(view, offset, value) ==
    IF view.err THEN view
    ELSE IF offset + 1 > Len(view.bytes) THEN [view EXCEPT !.err = TRUE]
    ELSE [view EXCEPT !.bytes[offset + 1] = value % 256]

\* Mutant of SetUint16: the littleEndian flag is dropped (big-endian store).
SetUint16_BigEndian(view, offset, value) ==
    IF view.err THEN view
    ELSE IF offset + 2 > Len(view.bytes) THEN [view EXCEPT !.err = TRUE]
    ELSE LET v == value % Pow2(16) IN
         [view EXCEPT !.bytes[offset + 1] = v \div 256,
                      !.bytes[offset + 2] = v % 256]

\* setUint16(offset, value, true): modulo 2^16, little-endian.
SetUint16(view, offset, value) ==
    IF view.err THEN view
    ELSE IF offset + 2 > Len(view.bytes) THEN [view EXCEPT !.err = TRUE]
    ELSE LET v == value % Pow2(16) IN
         [view EXCEPT !.bytes[offset + 1] = v % 256,
                      !.bytes[offset + 2] = v \div 256]

\* Mutant of SetUint32: the littleEndian flag is dropped (big-endian store).
SetUint32_BigEndian(view, offset, value) ==
    IF view.err THEN view
    ELSE IF offset + 4 > Len(view.bytes) THEN [view EXCEPT !.err = TRUE]
    ELSE [view EXCEPT !.bytes[offset + 4] = value % 256,
                      !.bytes[offset + 3] = (value \div 256) % 256,
                      !.bytes[offset + 2] = (value \div 65536) % 256,
                      !.bytes[offset + 1] = (value \div 16777216) % 256]

\* setUint32(offset, value, true): modulo 2^32, little-endian.  Byte k of the
\* two's complement of value is (value \div 256^k) % 256, which reduces
\* modulo 2^32 without forming 2^32.
SetUint32(view, offset, value) ==
    IF view.err THEN view
    ELSE IF offset + 4 > Len(view.bytes) THEN [view EXCEPT !.err = TRUE]
    ELSE [view EXCEPT !.bytes[offset + 1] = value % 256,
                      !.bytes[offset + 2] = (value \div 256) % 256,
                      !.bytes[offset + 3] = (value \div 65536) % 256,
                      !.bytes[offset + 4] = (value \div 16777216) % 256]

\* setInt16(offset, x, true) for the number x = num/den: ToInt16 truncates x
\* toward zero and reduces it modulo 2^16; the two bytes are the two's
\* complement of the result, little-endian.
SetInt16(view, offset, num, den) ==
    SetUint16(view, offset, Trunc(num, den))

----------------------------------------------------------------------------
(* WAV encoding helpers *)

\* text.charCodeAt(i) of the four tags written by encodeWAV.
TagRIFF == <<82, 73, 70, 70>>
TagWAVE == <<87, 65, 86, 69>>
TagFmt  == <<102, 109, 116, 32>>
TagData == <<100, 97, 116, 97>>

RECURSIVE writeStringLoop(_, _, _, _)
writeStringLoop(view, offset, text, i) ==
    IF i < Len(text)
    THEN writeStringLoop(SetUint8(view, offset + i, text[i + 1]), offset, text, i + 1)
    ELSE view

\* Mutant of writeString: the loop starts at the second character.
writeString_SkipFirst(view, offset, text) == writeStringLoop(view, offset, text, 1)

writeString(view, offset, text) == writeStringLoop(view, offset, text, 0)

RECURSIVE interleaveLoop(_, _, _, _, _)
interleaveLoop(L, R, result, index, i) ==
    IF i < Len(L)
    THEN interleaveLoop(L, R,
                        [result EXCEPT ![index + 1] = L[i + 1],
                                       ![index + 2] = R[i + 1]],
                        index + 2, i + 1)
    ELSE result

\* Mutant of interleave: the two channels are taken in the wrong order.
interleave_Swapped(L, R) ==
    interleaveLoop(R, L, [k \in 1..(Len(L) + Len(R)) |-> <<0, 1>>], 0, 0)

\* interleave(L, R); result starts as a zero-filled Float32Array.
interleave(L, R) ==
    interleaveLoop(L, R, [k \in 1..(Len(L) + Len(R)) |-> <<0, 1>>], 0, 0)

\* Mutant of ScaleSample: the scale is 0x8000 instead of 0x7fff.
ScaleSample_8000(x) ==
    LET s == MathMaxNeg1(MathMin1(x)) IN <<s[1] * 32768, s[2]>>

\* The number handed to setInt16 for the sample x: x clamped to [-1, 1],
\* times 0x7fff.
ScaleSample(x) ==
    LET s == MathMaxNeg1(MathMin1(x)) IN <<s[1] * 32767, s[2]>>

RECURSIVE encodeLoop(_, _, _, _)
encodeLoop(view, smp, offset, i) ==
    IF i < Len(smp)
    THEN LET x == ScaleSample(smp[i + 1]) IN
         encodeLoop(SetInt16(view, offset, x[1], x[2]), smp, offset + 2, i + 1)
    ELSE view

encodeHeader(view, smp, numChannels, sampleRate, bitDepth) ==
    LET bytesPerSample == bitDepth \div 8
        blockAlign == numChannels * bytesPerSample
        v1  == writeString(view, 0, TagRIFF)
        v2  == SetUint32(v1, 4, 36 + Len(smp) * bytesPerSample)
        v3  == writeString(v2, 8, TagWAVE)
        v4  == writeString(v3, 12, TagFmt)
        v5  == SetUint32(v4, 16, 16)
        v6  == SetUint16(v5, 20, 1)
        v7  == SetUint16(v6, 22, numChannels)
        v8  == SetUint32(v7, 24, sampleRate)
        v9  == SetUint32(v8, 28, sampleRate * blockAlign)
        v10 == SetUint16(v9, 32, blockAlign)
        v11 == SetUint16(v10, 34, bitDepth)
        v12 == writeString(v11, 36, TagData)
    IN  SetUint32(v12, 40, Len(smp) * bytesPerSample)

encodeWAV(smp, numChannels, sampleRate, bitDepth) ==
    LET bytesPerSample == bitDepth \div 8
        view == NewDataView(44 + Len(smp) * bytesPerSample)
    IN  encodeLoop(encodeHeader(view, smp, numChannels, sampleRate, bitDepth),
                   smp, 44, 0)

\* The sample sequence toWavBlob builds from the decoded buffer.
toWavSamples(buf) ==
    IF buf.numberOfChannels = 2
    THEN interleave(buf.channelData[1], buf.channelData[2])
    ELSE buf.channelData[1]

----------------------------------------------------------------------------
(* Decoded buffers *)

SeqsOfLen(S, n) == [1..n -> S]

\* Only getChannelData(0) and getChannelData(1) are ever read, so a buffer
\* of more than two channels carries the data of its first two.
StoredChannels(nc) == IF nc >= 2 THEN 2 ELSE 1

\* The frame counts of the model for a buffer of nc channels.
FrameCounts(nc) == { n \in 0..MaxSamples : n * StoredChannels(nc) <= MaxSamples }

\* The buffer decodeAudioData resolves with: channel count, sample rate,
\* frame count and equal-length channel arrays.
IsAudioBuffer(buf) ==
    \E nc \in 1..MaxChannels : \E sr \in SampleRates : \E n \in FrameCounts(nc) :
        \E cd \in [1..StoredChannels(nc) -> SeqsOfLen(SampleValues, n)] :
            buf = [numberOfChannels |-> nc, sampleRate |-> sr, length |-> n,
                   channelData |-> cd]

NoBuffer == [numberOfChannels |-> 0, sampleRate |-> 0, length |-> 0, channelData |-> <<>>]

----------------------------------------------------------------------------
(* SpecEnc: the encoder applied to every decoded buffer *)

InitApp ==
    /\ isRecording = FALSE
    /\ loading = FALSE
    /\ audioChunksRef = <<>>
    /\ mediaRecorderRef = 0
    /\ pendingStarts = 0
    /\ startsRejected = 0
    /\ recorders = <<>>
    /\ handlers = <<>>
    /\ promises = 0
    /\ held = FALSE
    /\ sessions = 0

InitEnc ==
    /\ IsAudioBuffer(audioBuffer)
    /\ samples = <<>>
    /\ wavData = NewDataView(0)
    /\ encPc = "decoded"
    /\ InitApp

\* toWavBlob from the resolution of decodeAudioData to its return.
ToWavBlobEncode ==
    /\ encPc = "decoded"
    /\ samples' = toWavSamples(audioBuffer)
    /\ wavData' = encodeWAV(samples', audioBuffer.numberOfChannels,
                            audioBuffer.sampleRate, 16)
    /\ encPc' = IF wavData'.err THEN "threw" ELSE "encoded"
    /\ UNCHANGED audioBuffer
    /\ UNCHANGED appVars

NextEnc == ToWavBlobEncode

SpecEnc == InitEnc /\ [][NextEnc]_vars


----------------------------------------------------------------------------
(* Spec: the App component *)

\* A MediaRecorder: its state attribute, whether stop() has queued the task
\* that fires dataavailable and stop, and its onstop attribute: 0 (null), or
\* the number of the stopRecording promise whose executor assigned the
\* handler (each executor run creates a new closure).
NewRecorder == [state |-> "recording", stopQueued |-> FALSE, onstop |-> 0]

\* The run of the onstop handler of one recorder.
\*   pc        where the async function is suspended, or how it ended:
\*             "none"     not started
\*             "toWav"    await toWavBlob(audioChunksRef.current)
\*             "toBlob"   await new Promise(res => canvas.toBlob(res, ...))
\*             "analyze"  await fetch(".../analyze")
\*             "json"     await backend.json()
\*             "speech"   await fetch(".../audio/speech")
\*             "errText"  await groqRes.text()
\*             "body"     await groqRes.arrayBuffer()
\*             "done"     ran to its last statement (setLoading(false); resolve())
\*             "returned" left by a return statement inside the try block
\*             "rejected" threw outside the try block: the promise of the async
\*                        function is rejected and nothing observes it
\*   chunks    the chunk sequence handed to toWavBlob
\*   encoded   containers toWavBlob returned to the handler
\*   trace     the steps of the workflow taken so far, in order
\*   analyze, speech   requests sent to the two endpoints
\*   played    calls of playAudio
\*   logged    console.error calls, in order
\*   resolved  resolve() of the promise returned by stopRecording was called
NewHandler ==
    [pc |-> "none", chunks |-> <<>>, encoded |-> 0, analyze |-> 0, speech |-> 0,
     played |-> 0, trace |-> <<>>, logged |-> <<>>, resolved |-> FALSE]

InitSession ==
    /\ audioBuffer = NoBuffer
    /\ samples = <<>>
    /\ wavData = NewDataView(0)
    /\ encPc = "idle"
    /\ InitApp

Recs == 1..Len(recorders)

\* The button is rendered with disabled={loading}: a disabled button
\* dispatches no mouse or touch event.
ButtonEnabled == ~loading

\* onMouseDown / onTouchStart: startRecording up to its await.
StartRecording ==
    /\ ButtonEnabled
    /\ Len(recorders) + pendingStarts + startsRejected < MaxPresses
    /\ audioChunksRef' = <<>>
    /\ pendingStarts' = pendingStarts + 1
    /\ held' = TRUE
    /\ UNCHANGED encVars
    /\ UNCHANGED <<promises, sessions>>
    /\ UNCHANGED <<isRecording, loading, mediaRecorderRef, startsRejected,
                   recorders, handlers>>

\* getUserMedia({audio: true}) resolves: the rest of startRecording.
GetUserMediaResolved ==
    /\ pendingStarts > 0
    /\ pendingStarts' = pendingStarts - 1
    /\ recorders' = Append(recorders, NewRecorder)
    /\ handlers' = Append(handlers, NewHandler)
    /\ mediaRecorderRef' = Len(recorders) + 1
    /\ isRecording' = TRUE
    /\ UNCHANGED encVars
    /\ UNCHANGED uiVars
    /\ UNCHANGED <<loading, audioChunksRef, startsRejected>>

\* getUserMedia({audio: true}) rejects: startRecording ends there.
GetUserMediaRejected ==
    /\ pendingStarts > 0
    /\ pendingStarts' = pendingStarts - 1
    /\ startsRejected' = startsRejected + 1
    /\ UNCHANGED encVars
    /\ UNCHANGED uiVars
    /\ UNCHANGED <<isRecording, loading, audioChunksRef, mediaRecorderRef,
                   recorders, handlers>>

\* recorder.stop(): a recording recorder becomes inactive and queues the task
\* that fires dataavailable and then stop; an inactive one is left alone.
StopCall(rec) ==
    IF rec.state = "recording"
    THEN [rec EXCEPT !.state = "inactive", !.stopQueued = TRUE]
    ELSE rec

\* Mutant of StopRecording: setIsRecording(false) is missing.
StopRecording_KeepsFlag ==
    /\ ButtonEnabled
    /\ IF ~isRecording
       THEN UNCHANGED <<recorders, promises>>
       ELSE /\ promises' = promises + 1
            /\ recorders' = [recorders EXCEPT ![mediaRecorderRef] =
                                StopCall([@ EXCEPT !.onstop = promises'])]
    /\ held' = FALSE
    /\ sessions' = IF held THEN sessions + 1 ELSE sessions
    /\ UNCHANGED encVars
    /\ UNCHANGED <<isRecording, loading, audioChunksRef, mediaRecorderRef, pendingStarts,
                   startsRejected, handlers>>

\* Mutant of StopRecording: the guard on isRecording is missing (with no
\* recorder yet, the executor throws on null and changes nothing).
StopRecording_NoGuard ==
    /\ ButtonEnabled
    /\ isRecording' = FALSE
    /\ IF mediaRecorderRef = 0
       THEN UNCHANGED <<recorders, promises>>
       ELSE /\ promises' = promises + 1
            /\ recorders' = [recorders EXCEPT ![mediaRecorderRef] =
                                StopCall([@ EXCEPT !.onstop = promises'])]
    /\ held' = FALSE
    /\ sessions' = IF held THEN sessions + 1 ELSE sessions
    /\ UNCHANGED encVars
    /\ UNCHANGED <<loading, audioChunksRef, mediaRecorderRef, pendingStarts,
                   startsRejected, handlers>>

\* onMouseUp / onTouchEnd: stopRecording.
StopRecording ==
    /\ ButtonEnabled
    /\ IF ~isRecording
       THEN UNCHANGED <<isRecording, recorders, promises>>
       ELSE /\ isRecording' = FALSE
            /\ promises' = promises + 1
            /\ recorders' = [recorders EXCEPT ![mediaRecorderRef] =
                                StopCall([@ EXCEPT !.onstop = promises'])]
    /\ held' = FALSE
    /\ sessions' = IF held THEN sessions + 1 ELSE sessions
    /\ UNCHANGED encVars
    /\ UNCHANGED <<loading, audioChunksRef, mediaRecorderRef, pendingStarts,
                   startsRejected, handlers>>

\* e.data.size of the blob a recorder delivers: nothing was captured (0), or
\* some compressed audio (1).
ChunkSizes == {0, 1}

\* The byte length of new Blob(audioChunks).
RECURSIVE BlobSize(_)
BlobSize(chunks) ==
    IF chunks = <<>> THEN 0 ELSE Head(chunks).size + BlobSize(Tail(chunks))

\* The task queued by stop(): dataavailable (the handler pushes the blob onto
\* audioChunksRef.current), then stop (onstop, if assigned, runs up to its
\* first await: toWavBlob builds its Blob from audioChunksRef.current).
StopEvent(r) ==
    /\ recorders[r].stopQueued
    /\ recorders' = [recorders EXCEPT ![r].stopQueued = FALSE]
    /\ \E size \in ChunkSizes :
          audioChunksRef' = Append(audioChunksRef, [rec |-> r, size |-> size])
    /\ handlers' = IF recorders[r].onstop # 0
                   THEN [handlers EXCEPT ![r].pc = "toWav",
                                         ![r].chunks = audioChunksRef']
                   ELSE handlers
    /\ UNCHANGED encVars
    /\ UNCHANGED uiVars
    /\ UNCHANGED <<isRecording, loading, mediaRecorderRef, pendingStarts, startsRejected>>

\* catch (err) { console.error(err) }; setLoading(false); resolve().
Caught(h) ==
    [h EXCEPT !.pc = "done", !.logged = Append(@, "caught"), !.resolved = TRUE]

\* toWavBlob resolves (decodeAudioData cannot decode an empty buffer, so the
\* blob is not empty); the handler draws the frame and awaits canvas.toBlob.
ToWavResolved(r) ==
    /\ handlers[r].pc = "toWav"
    /\ BlobSize(handlers[r].chunks) > 0
    /\ handlers' = [handlers EXCEPT ![r].pc = "toBlob", ![r].encoded = @ + 1,
                                    ![r].trace = @ \o <<"encode", "frame">>]
    /\ UNCHANGED encVars
    /\ UNCHANGED uiVars
    /\ UNCHANGED <<isRecording, loading, audioChunksRef, mediaRecorderRef,
                   pendingStarts, startsRejected, recorders>>

\* Mutant of ToWavRejected: the decode error is swallowed and the workflow
\* goes on without a container.
ToWavRejected_Swallowed(r) ==
    /\ handlers[r].pc = "toWav"
    /\ handlers' = [handlers EXCEPT ![r].pc = "toBlob"]
    /\ UNCHANGED encVars
    /\ UNCHANGED uiVars
    /\ UNCHANGED <<isRecording, loading, audioChunksRef, mediaRecorderRef,
                   pendingStarts, startsRejected, recorders>>

\* decodeAudioData rejects inside toWavBlob: line 137 is outside the try.
ToWavRejected(r) ==
    /\ handlers[r].pc = "toWav"
    /\ handlers' = [handlers EXCEPT ![r].pc = "rejected"]
    /\ UNCHANGED encVars
    /\ UNCHANGED uiVars
    /\ UNCHANGED <<isRecording, loading, audioChunksRef, mediaRecorderRef,
                   pendingStarts, startsRejected, recorders>>

\* canvas.toBlob calls back with the JPEG: setLoading(true), the form is
\* built and the analysis request is sent.
ToBlobImage(r) ==
    /\ handlers[r].pc = "toBlob"
    /\ loading' = TRUE
    /\ handlers' = [handlers EXCEPT ![r].pc = "analyze", ![r].analyze = @ + 1,
                                    ![r].trace = Append(@, "analyze")]
    /\ UNCHANGED encVars
    /\ UNCHANGED uiVars
    /\ UNCHANGED <<isRecording, audioChunksRef, mediaRecorderRef,
                   pendingStarts, startsRejected, recorders>>

\* canvas.toBlob calls back with null (a canvas without pixels):
\* setLoading(true), formData.append throws TypeError inside the try, which
\* is caught; setLoading(false); resolve().
ToBlobNull(r) ==
    /\ handlers[r].pc = "toBlob"
    /\ loading' = FALSE
    /\ handlers' = [handlers EXCEPT ![r] = Caught(@)]
    /\ UNCHANGED encVars
    /\ UNCHANGED uiVars
    /\ UNCHANGED <<isRecording, audioChunksRef, mediaRecorderRef,
                   pendingStarts, startsRejected, recorders>>

\* Mutant of AwaitRejected: a failed analysis request is sent once more.
AwaitRejected_Retry(r) ==
    /\ handlers[r].pc \in {"analyze", "json", "speech", "errText", "body"}
    /\ IF handlers[r].pc = "analyze" /\ handlers[r].analyze < 2
       THEN /\ handlers' = [handlers EXCEPT ![r].analyze = @ + 1]
            /\ UNCHANGED loading
       ELSE /\ loading' = FALSE
            /\ handlers' = [handlers EXCEPT ![r] = Caught(@)]
    /\ UNCHANGED encVars
    /\ UNCHANGED uiVars
    /\ UNCHANGED <<isRecording, audioChunksRef, mediaRecorderRef,
                   pendingStarts, startsRejected, recorders>>

\* An awaited promise inside the try block rejects (fetch, json, text,
\* arrayBuffer): the catch block logs, then setLoading(false); resolve().
AwaitRejected(r) ==
    /\ handlers[r].pc \in {"analyze", "json", "speech", "errText", "body"}
    /\ loading' = FALSE
    /\ handlers' = [handlers EXCEPT ![r] = Caught(@)]
    /\ UNCHANGED encVars
    /\ UNCHANGED uiVars
    /\ UNCHANGED <<isRecording, audioChunksRef, mediaRecorderRef,
                   pendingStarts, startsRejected, recorders>>

\* fetch(".../analyze") resolves with a response.
AnalyzeResolved(r) ==
    /\ handlers[r].pc = "analyze"
    /\ handlers' = [handlers EXCEPT ![r].pc = "json"]
    /\ UNCHANGED encVars
    /\ UNCHANGED uiVars
    /\ UNCHANGED <<isRecording, loading, audioChunksRef, mediaRecorderRef,
                   pendingStarts, startsRejected, recorders>>

\* backend.json() resolves with a text field: the speech request is sent.
JsonWithText(r) ==
    /\ handlers[r].pc = "json"
    /\ handlers' = [handlers EXCEPT ![r].pc = "speech", ![r].speech = @ + 1,
                                    ![r].trace = @ \o <<"text", "speech">>]
    /\ UNCHANGED encVars
    /\ UNCHANGED uiVars
    /\ UNCHANGED <<isRecording, loading, audioChunksRef, mediaRecorderRef,
                   pendingStarts, startsRejected, recorders>>

\* backend.json() resolves without a (non-empty) text field:
\* console.error(...); return.
JsonWithoutText(r) ==
    /\ handlers[r].pc = "json"
    /\ handlers' = [handlers EXCEPT ![r].pc = "returned",
                                    ![r].logged = Append(@, "no text")]
    /\ UNCHANGED encVars
    /\ UNCHANGED uiVars
    /\ UNCHANGED <<isRecording, loading, audioChunksRef, mediaRecorderRef,
                   pendingStarts, startsRejected, recorders>>

\* fetch(".../audio/speech") resolves with groqRes.ok.
SpeechOk(r) ==
    /\ handlers[r].pc = "speech"
    /\ handlers' = [handlers EXCEPT ![r].pc = "body", ![r].trace = Append(@, "ok")]
    /\ UNCHANGED encVars
    /\ UNCHANGED uiVars
    /\ UNCHANGED <<isRecording, loading, audioChunksRef, mediaRecorderRef,
                   pendingStarts, startsRejected, recorders>>

\* Mutant of SpeechNotOk: groqRes.ok is not tested, the body is read.
SpeechNotOk_Ignored(r) ==
    /\ handlers[r].pc = "speech"
    /\ handlers' = [handlers EXCEPT ![r].pc = "body"]
    /\ UNCHANGED encVars
    /\ UNCHANGED uiVars
    /\ UNCHANGED <<isRecording, loading, audioChunksRef, mediaRecorderRef,
                   pendingStarts, startsRejected, recorders>>

\* fetch(".../audio/speech") resolves with !groqRes.ok: await groqRes.text().
SpeechNotOk(r) ==
    /\ handlers[r].pc = "speech"
    /\ handlers' = [handlers EXCEPT ![r].pc = "errText"]
    /\ UNCHANGED encVars
    /\ UNCHANGED uiVars
    /\ UNCHANGED <<isRecording, loading, audioChunksRef, mediaRecorderRef,
                   pendingStarts, startsRejected, recorders>>

\* groqRes.text() resolves: console.error("Groq error:", ...); return.
ErrTextResolved(r) ==
    /\ handlers[r].pc = "errText"
    /\ handlers' = [handlers EXCEPT ![r].pc = "returned",
                                    ![r].logged = Append(@, "Groq error")]
    /\ UNCHANGED encVars
    /\ UNCHANGED uiVars
    /\ UNCHANGED <<isRecording, loading, audioChunksRef, mediaRecorderRef,
                   pendingStarts, startsRejected, recorders>>

\* groqRes.arrayBuffer() resolves: playAudio(audioBuffer); setLoading(false);
\* resolve().
BodyResolved(r) ==
    /\ handlers[r].pc = "body"
    /\ loading' = FALSE
    /\ handlers' = [handlers EXCEPT ![r].pc = "done", ![r].played = @ + 1,
                                    ![r].trace = Append(@, "play"),
                                    ![r].resolved = TRUE]
    /\ UNCHANGED encVars
    /\ UNCHANGED uiVars
    /\ UNCHANGED <<isRecording, audioChunksRef, mediaRecorderRef,
                   pendingStarts, startsRejected, recorders>>

Next ==
    \/ StartRecording
    \/ GetUserMediaResolved
    \/ GetUserMediaRejected
    \/ StopRecording
    \/ \E r \in Recs : StopEvent(r)
    \/ \E r \in Recs : ToWavResolved(r)
    \/ \E r \in Recs : ToWavRejected(r)
    \/ \E r \in Recs : ToBlobImage(r)
    \/ \E r \in Recs : ToBlobNull(r)
    \/ \E r \in Recs : AwaitRejected(r)
    \/ \E r \in Recs : AnalyzeResolved(r)
    \/ \E r \in Recs : JsonWithText(r)
    \/ \E r \in Recs : JsonWithoutText(r)
    \/ \E r \in Recs : SpeechOk(r)
    \/ \E r \in Recs : SpeechNotOk(r)
    \/ \E r \in Recs : ErrTextResolved(r)
    \/ \E r \in Recs : BodyResolved(r)

Init == InitSession

Spec == Init /\ [][Next]_vars

----------------------------------------------------------------------------
(* Properties of the session workflow *)

Finished(h) == h.pc \in {"done", "returned", "rejected"}

\* The handler has executed setLoading(true) (line 148).
PassedSetLoading(h) ==
    h.pc \in {"analyze", "json", "speech", "errText", "body", "returned", "done"}

\* No handler is suspended at an await and no stop task is queued.
Quiescent ==
    /\ \A r \in Recs : handlers[r].pc = "none" \/ Finished(handlers[r])
    /\ \A r \in Recs : ~recorders[r].stopQueued

\* C1 as stated: after a handler has set loading to true, loading is false
\* again once the workflow is over, whatever its outcome (success, no text
\* field, speech endpoint not ok, exception).
C1_AsStated ==
    (Quiescent /\ \E r \in Recs : PassedSetLoading(handlers[r])) => ~loading

\* C2 as stated: no error of the workflow escapes the handler as an uncaught
\* rejection, every error is logged, and the promise returned by
\* stopRecording is settled once the handler is over.
C2_AsStated ==
    \A r \in Recs :
        /\ handlers[r].pc # "rejected"
        /\ Finished(handlers[r]) => handlers[r].resolved
        /\ (Finished(handlers[r]) /\ handlers[r].played = 0) => handlers[r].logged # <<>>

\* The recorders whose onstop handler has called toWavBlob.
Encoders == { r \in Recs : handlers[r].pc # "none" }

\* Nothing of the recording side is pending: every acquisition has completed,
\* every queued stop task has run, and the button is up.
Settled ==
    /\ pendingStarts = 0
    /\ ~held
    /\ \A r \in Recs : ~recorders[r].stopQueued

\* Every press so far has been followed by a release before the next press
\* (the counterexamples below need no double press).
Alternating ==
    Len(recorders) + pendingStarts + startsRejected
        = sessions + (IF held THEN 1 ELSE 0)

\* C11 as stated: toWavBlob is called exactly once per press-and-hold, under
\* every interleaving of press, acquisition, release and stop event: once
\* everything has settled (and no acquisition was refused), there are as many
\* toWavBlob calls as completed press/release pairs.
C11_AsStated ==
    (Alternating /\ Settled /\ startsRejected = 0) => Cardinality(Encoders) = sessions

\* The recorders that emitted the chunks of a sequence, in order.
Emitters(chunks) == [i \in 1..Len(chunks) |-> chunks[i].rec]

\* C12 as stated: the chunk sequence handed to toWavBlob for a session holds
\* exactly the chunks its own recorder emitted (one, at stop), in order.
C12_AsStated ==
    Alternating => \A r \in Encoders : Emitters(handlers[r].chunks) = <<r>>

\* C13: an empty blob, or one the decoder rejects, ends toWavBlob in a decode
\* error: the handler is rejected there, no container was produced, no step
\* of the workflow was taken and no analysis request was sent; a request is
\* only ever sent with a container.
C13_DecodeError ==
    \A r \in Encoders :
        /\ (BlobSize(handlers[r].chunks) = 0 /\ handlers[r].pc # "toWav") =>
              handlers[r].pc = "rejected"
        /\ handlers[r].pc = "rejected" =>
              /\ handlers[r].encoded = 0
              /\ handlers[r].analyze = 0
              /\ handlers[r].trace = <<>>
        /\ handlers[r].analyze > 0 => handlers[r].encoded = 1

\* A handler has been rejected on an empty blob.
C13_Witness ==
    \E r \in Encoders :
        /\ handlers[r].pc = "rejected"
        /\ BlobSize(handlers[r].chunks) = 0
        /\ handlers[r].analyze = 0

\* The steps of a complete session, in order.
FullOrder == <<"encode", "frame", "analyze", "text", "speech", "ok", "play">>

IsPrefix(p, q) == Len(p) <= Len(q) /\ SubSeq(q, 1, Len(p)) = p

\* The session failed: decode error, logged error or caught exception.
Failed(h) == h.pc = "rejected" \/ h.logged # <<>>

\* C14: playAudio is called at most once per session, only at the end of the
\* order encode, frame, analysis (with text), synthesis (ok), playback, and
\* never in a session that failed; the steps taken are always a prefix of
\* that order.
C14_NoPartialOutput ==
    \A r \in Recs :
        /\ handlers[r].played <= 1
        /\ IsPrefix(handlers[r].trace, FullOrder)
        /\ handlers[r].played = 1 => handlers[r].trace = FullOrder
        /\ Failed(handlers[r]) => handlers[r].played = 0

\* One session has played its audio and another has failed without playing.
C14_Witness ==
    \E r1, r2 \in Recs :
        /\ handlers[r1].played = 1 /\ handlers[r1].pc = "done"
        /\ Finished(handlers[r2]) /\ Failed(handlers[r2]) /\ handlers[r2].played = 0

\* C15: per session at most one analysis request and at most one synthesis
\* request, the latter only after an analysis response with text.
C15_NoRetry ==
    \A r \in Recs :
        /\ handlers[r].analyze <= 1
        /\ handlers[r].speech <= 1
        /\ handlers[r].speech = 1 =>
              /\ handlers[r].analyze = 1
              /\ IsPrefix(<<"encode", "frame", "analyze", "text">>, handlers[r].trace)

\* Sessions have ended in failure after their requests: one after the
\* analysis request, one after the synthesis request.
C15_Witness ==
    \E r1, r2 \in Recs :
        /\ Finished(handlers[r1]) /\ Failed(handlers[r1])
        /\ handlers[r1].analyze = 1 /\ handlers[r1].speech = 0
        /\ Finished(handlers[r2]) /\ Failed(handlers[r2])
        /\ handlers[r2].analyze = 1 /\ handlers[r2].speech = 1

\* C16 as stated: once every pending acquisition has completed and the button
\* is up, no recorder is still recording.
C16_AsStated ==
    (Alternating /\ pendingStarts = 0 /\ ~held) =>
        \A r \in Recs : recorders[r].state = "inactive"

\* The handlers that have started and not finished.
InFlight == { r \in Recs : handlers[r].pc # "none" /\ ~Finished(handlers[r]) }

\* The handlers whose analysis request is outstanding.
Analyzing == { r \in Recs : handlers[r].pc = "analyze" }

\* C17 as stated: at most one session workflow is in flight at a time, and
\* in particular two analysis requests are never outstanding together.
C17_AsStated ==
    Alternating => (Cardinality(InFlight) <= 1 /\ Cardinality(Analyzing) <= 1)

\* C18: while isRecording is true, mediaRecorderRef.current is a recorder
\* that has been started and not stopped.
C18_RecordingHasRecorder ==
    isRecording =>
        /\ mediaRecorderRef \in Recs
        /\ recorders[mediaRecorderRef].state = "recording"
        /\ ~recorders[mediaRecorderRef].stopQueued

\* A second recorder is recording after the first one has been stopped.
C18_Witness ==
    /\ isRecording
    /\ mediaRecorderRef = 2
    /\ recorders[1].state = "inactive"
    /\ recorders[2].state = "recording"

\* C19: a release while isRecording is false changes neither isRecording,
\* loading, the chunk buffer, the current recorder, any recorder (state,
\* onstop) nor any handler, and creates no promise.
C19_ReleaseNoOp ==
    [][(StopRecording /\ ~isRecording) =>
          UNCHANGED <<isRecording, loading, audioChunksRef, mediaRecorderRef,
                      pendingStarts, recorders, handlers, promises>>]_vars

\* A release has come while nothing was recording, with a recorder already
\* stopped by an earlier release.
C19_Witness ==
    /\ ~held
    /\ sessions > promises
    /\ mediaRecorderRef \in Recs
    /\ recorders[mediaRecorderRef].state = "inactive"

----------------------------------------------------------------------------
(* Properties of the encoder.  The container is read back as a standard   *)
(* little-endian PCM reader reads it.                                      *)

ReadUint8(o) == wavData.bytes[o + 1]
ReadUint16(o) == ReadUint8(o) + 256 * ReadUint8(o + 1)
ReadUint32(o) == ReadUint16(o) + 65536 * ReadUint16(o + 2)
ReadInt16(o) == IF ReadUint16(o) >= 32768 THEN ReadUint16(o) - 65536 ELSE ReadUint16(o)
ReadTag(o) == <<ReadUint8(o), ReadUint8(o + 1), ReadUint8(o + 2), ReadUint8(o + 3)>>

\* The 16-bit value written for sample i (0-based) of the sequence.
Payload(i) == ReadInt16(44 + 2 * i)

SampleIdx == 0..(Len(samples) - 1)

\* Comparisons of a rational sample with +1 and -1.
AtLeastOne(s) == s[1] >= s[2]
AboveOne(s) == s[1] > s[2]
AtMostMinusOne(s) == s[1] <= -s[2]
BelowMinusOne(s) == s[1] < -s[2]

\* The 16-bit value encodeWAV writes for the one-sample sequence <<b>>.
CodeOf(b) ==
    LET w == encodeWAV(<<b>>, 1, 8000, 16).bytes
        u == w[45] + 256 * w[46]
    IN  IF u >= 32768 THEN u - 65536 ELSE u

\* C3 as stated: a sample >= 1.0 is written as 32767 and a sample <= -1.0 is
\* written as -32768.
C3_AsStated ==
    encPc = "encoded" =>
        \A i \in SampleIdx :
            /\ AtLeastOne(samples[i + 1]) => Payload(i) = 32767
            /\ AtMostMinusOne(samples[i + 1]) => Payload(i) = -32768

\* C3 amended: a sample >= 1.0 is written as 32767 and a sample <= -1.0 is
\* written as -32767 (the scale 0x7fff is applied to both signs).
C3_ClampValues ==
    encPc = "encoded" =>
        \A i \in SampleIdx :
            /\ AtLeastOne(samples[i + 1]) => Payload(i) = 32767
            /\ AtMostMinusOne(samples[i + 1]) => Payload(i) = -32767

\* The four samples 1.0, 1.5, -1.0, -2.0 have been encoded.
C3_Witness ==
    /\ encPc = "encoded"
    /\ samples = << <<1, 1>>, <<3, 2>>, <<-1, 1>>, <<-2, 1>> >>
    /\ Payload(0) = 32767 /\ Payload(1) = 32767
    /\ Payload(2) = -32767 /\ Payload(3) = -32767

\* C4: a sample outside [-1, 1] is written as the value of the nearest
\* boundary is, keeps its sign (no wrap around the 16-bit range), and the
\* encoding does not throw.
C4_HardClamp ==
    encPc # "decoded" =>
        /\ encPc = "encoded"
        /\ \A i \in SampleIdx :
              /\ AboveOne(samples[i + 1]) =>
                    Payload(i) = CodeOf(<<1, 1>>) /\ Payload(i) > 0
              /\ BelowMinusOne(samples[i + 1]) =>
                    Payload(i) = CodeOf(<<-1, 1>>) /\ Payload(i) < 0

\* A sequence holding a sample above 1 and a sample below -1 has been encoded.
C4_Witness ==
    /\ encPc = "encoded"
    /\ \E i \in SampleIdx : AboveOne(samples[i + 1])
    /\ \E i \in SampleIdx : BelowMinusOne(samples[i + 1])

\* C5 as stated: for every channel count, the sample sequence passed to
\* encodeWAV has length (frames x the channel count written at bytes 22-23).
C5_AsStated ==
    encPc = "encoded" => Len(samples) = audioBuffer.length * ReadUint16(22)

\* C6: the container has 44 + 2 x samples.length bytes, and a mono call
\* writes channel count 1 at bytes 22-23.
C6_LengthAndMono ==
    encPc # "decoded" =>
        /\ Len(wavData.bytes) = 44 + 2 * Len(samples)
        /\ audioBuffer.numberOfChannels = 1 => ReadUint16(22) = 1

\* A mono buffer of at least two samples has been encoded.
C6_Witness ==
    /\ encPc = "encoded"
    /\ audioBuffer.numberOfChannels = 1
    /\ Len(samples) >= 2
    /\ Len(wavData.bytes) = 44 + 2 * Len(samples)

\* C7: the data size at offset 40 is the payload length (buffer length - 44
\* = 2 x samples.length) and the chunk size at offset 4 is 36 + data size.
C7_DeclaredLengths ==
    encPc = "encoded" =>
        /\ ReadUint32(40) = Len(wavData.bytes) - 44
        /\ ReadUint32(40) = 2 * Len(samples)
        /\ ReadUint32(4) = 36 + ReadUint32(40)

\* A container with a non-empty payload has been produced.
C7_Witness ==
    /\ encPc = "encoded"
    /\ Len(samples) >= 3
    /\ ReadUint32(40) = 2 * Len(samples)

\* C8: the 44-byte header carries the tags RIFF/WAVE/fmt /data, subchunk1
\* size 16, format 1, the channel count, the sample rate, byte rate =
\* sampleRate x channels x 2, block align = channels x 2 and bit depth 16.
C8_Header ==
    encPc = "encoded" =>
        /\ ReadTag(0) = <<82, 73, 70, 70>>
        /\ ReadTag(8) = <<87, 65, 86, 69>>
        /\ ReadTag(12) = <<102, 109, 116, 32>>
        /\ ReadTag(36) = <<100, 97, 116, 97>>
        /\ ReadUint32(16) = 16
        /\ ReadUint16(20) = 1
        /\ ReadUint16(22) = audioBuffer.numberOfChannels
        /\ ReadUint32(24) = audioBuffer.sampleRate
        /\ ReadUint32(28) = audioBuffer.sampleRate * audioBuffer.numberOfChannels * 2
        /\ ReadUint16(32) = audioBuffer.numberOfChannels * 2
        /\ ReadUint16(34) = 16

\* A stereo 48000 Hz buffer has been encoded: byte rate 192000, block align 4.
C8_Witness ==
    /\ encPc = "encoded"
    /\ audioBuffer.numberOfChannels = 2
    /\ audioBuffer.sampleRate = 48000
    /\ ReadUint32(28) = 192000
    /\ ReadUint16(32) = 4

\* The interleaved stream of a stereo buffer: length 2n, element 2i is L[i]
\* and element 2i+1 is R[i].
InterleavedRight ==
    (encPc = "encoded" /\ audioBuffer.numberOfChannels = 2) =>
        LET L == audioBuffer.channelData[1]
            R == audioBuffer.channelData[2]
        IN  /\ Len(L) = audioBuffer.length /\ Len(R) = audioBuffer.length
            /\ Len(samples) = 2 * audioBuffer.length
            /\ \A i \in 0..(audioBuffer.length - 1) :
                  /\ samples[2 * i + 1] = L[i + 1]
                  /\ samples[2 * i + 2] = R[i + 1]

\* C9: interleave(L, R) has length 2n with L[i] at 2i and R[i] at 2i+1, and
\* the step that computes it leaves L and R as they were.
C9_Interleave ==
    []InterleavedRight /\ [][audioBuffer' = audioBuffer]_vars

\* A stereo pair of two frames with four different samples has been interleaved.
C9_Witness ==
    /\ encPc = "encoded"
    /\ audioBuffer.numberOfChannels = 2
    /\ audioBuffer.length = 2
    /\ Cardinality({samples[k] : k \in 1..Len(samples)}) = 4

\* The numerator of clamp(s, -1, 1) over the denominator of s.
ClampedNum(s) ==
    IF s[1] > s[2] THEN s[2] ELSE IF s[1] < -s[2] THEN -s[2] ELSE s[1]

Abs(x) == IF x < 0 THEN -x ELSE x

\* C10: q_i / 32767 is within 1/32767 of clamp(S[i], -1, 1) for every i, q_i
\* being the 16-bit value at offset 44 + 2i:
\* |q_i x den - 32767 x clampedNum| <= den.
C10_RoundTrip ==
    encPc = "encoded" =>
        \A i \in SampleIdx :
            LET s == samples[i + 1] IN
            Abs(Payload(i) * s[2] - 32767 * ClampedNum(s)) <= s[2]

\* A sequence of different samples, one of them not a multiple of 1/32767
\* (so that truncation happened), has been encoded.
C10_Witness ==
    /\ encPc = "encoded"
    /\ Len(samples) >= 3
    /\ samples[1] # samples[2]
    /\ \E i \in SampleIdx :
          Payload(i) * samples[i + 1][2] # 32767 * ClampedNum(samples[i + 1])

====
